---- MODULE Spec2Model ----
(***************************************************************************)
(* Model of src/encode.js: createTransaction signs a fixed payment record  *)
(* stamped with the system clock, verifyTransaction checks the age of a    *)
(* received record against the system clock and then its signature.        *)
(*                                                                         *)
(* JavaScript values are modelled structurally:                            *)
(*   - a string is a sequence of characters (one-element TLA+ strings; a   *)
(*     run of characters nothing looks into may be one longer token);      *)
(*   - a number is carried by its decimal text, which is what              *)
(*     JSON.stringify emits for it;                                        *)
(*   - an object is the sequence of its own properties in insertion order, *)
(*     which is the order JSON.stringify and the rest pattern walk.        *)
(* The RSA/SHA-256 primitive is modelled as an ideal signature: the bytes  *)
(* of a signature determine the key pair and the exact text that was       *)
(* signed, and nothing else produces them.                                 *)
(***************************************************************************)
EXTENDS Integers, Sequences, FiniteSets, TLC

VARIABLES clock, issued, log

vars == <<clock, issued, log>>

(* ------------------------------ bounds -------------------------------- *)

\* Latest instant (ms after the model's time origin) the clock reaches.
MaxClock == 360000

\* Number of distinct signed transactions createTransaction hands out.
MaxIssued == 1

\* Instants the system clock is observed at: the origin, one second, either
\* side of the five-minute window, and the latest instant.
Instants == {0, 1000, 299999, 300000, MaxClock}

KeyPairs == {"K1", "K2"}

(* --------------------------- JavaScript values ------------------------ *)

Str(chars) == [t |-> "string", v |-> chars]

Num(text) == [t |-> "number", v |-> text]

Undefined == [t |-> "undefined", v |-> <<>>]

Prop(key, val) == [k |-> key, v |-> val]

HasKey(obj, key) == \E i \in 1..Len(obj) : obj[i].k = key

\* obj[key]: the property's value, undefined when the object has no such key.
Get(obj, key) ==
  IF HasKey(obj, key)
    THEN obj[CHOOSE i \in 1..Len(obj) : obj[i].k = key].v
    ELSE Undefined

\* A rest object that keeps signature as well.
RestWithSignature(obj) == obj

\* const { signature, ...value } = transaction: the rest object keeps every
\* other own property, in insertion order.
Rest(obj) == SelectSeq(obj, LAMBDA p : p.k # "signature")

(* ------------------------------ keys ---------------------------------- *)

PrivateKey(pair) == [pem |-> "private", pair |-> pair]

PublicKey(pair) == [pem |-> "public", pair |-> pair]

\* private.pem, the key the program signs with, is the private key of K1.
SignerKeys == {PrivateKey("K1")}

(* --------------------------- Date conversions ------------------------- *)

Digits == <<"0", "1", "2", "3", "4", "5", "6", "7", "8", "9">>

Digit(n) == Digits[n + 1]

IsDigit(ch) == \E d \in 0..9 : Digits[d + 1] = ch

DigitVal(ch) == CHOOSE d \in 0..9 : Digits[d + 1] = ch

\* The date and hour of every instant of the model, as one token.
DateHour == "2024-11-18T07:"

\* Date.prototype.toISOString of the instant ms: "2024-11-18T07:MM:SS.mmmZ".
toISOString(ms) ==
  <<DateHour,
    Digit((ms \div 60000) \div 10), Digit((ms \div 60000) % 10), ":",
    Digit(((ms \div 1000) % 60) \div 10), Digit(((ms \div 1000) % 60) % 10), ".",
    Digit((ms % 1000) \div 100), Digit(((ms % 1000) \div 10) % 10), Digit(ms % 10),
    "Z">>

\* A Date's time value: a number of milliseconds, or NaN (Invalid Date).
TimeValue(ms) == [nan |-> FALSE, ms |-> ms]

NaN == [nan |-> TRUE, ms |-> 0]

IsISOText(s) ==
  /\ Len(s) = 11
  /\ s[1] = DateHour
  /\ \A i \in {2, 3, 5, 6, 8, 9, 10} : IsDigit(s[i])
  /\ s[4] = ":" /\ s[7] = "." /\ s[11] = "Z"
  /\ DigitVal(s[2]) * 10 + DigitVal(s[3]) < 60
  /\ DigitVal(s[5]) * 10 + DigitVal(s[6]) < 60

\* new Date(x): a string that is a date-time text gives its instant; any
\* other string, and undefined, give an Invalid Date.
NewDate(val) ==
  IF val.t = "string" /\ IsISOText(val.v)
    THEN TimeValue((DigitVal(val.v[2]) * 10 + DigitVal(val.v[3])) * 60000
                   + (DigitVal(val.v[5]) * 10 + DigitVal(val.v[6])) * 1000
                   + DigitVal(val.v[8]) * 100 + DigitVal(val.v[9]) * 10
                   + DigitVal(val.v[10]))
    ELSE NaN

\* a - b on two Dates: NaN as soon as one of them is invalid.
DateMinus(a, b) == IF a.nan \/ b.nan THEN NaN ELSE TimeValue(a.ms - b.ms)

maximumWindowMs == 5 * 60 * 1000

\* The comparison with > in place of >=.
ExceedsWindowStrict(x) == ~x.nan /\ x.ms > maximumWindowMs

\* x >= maximumWindowMs: every comparison with NaN is false.
ExceedsWindow(x) == ~x.nan /\ x.ms >= maximumWindowMs

(* --------------------------- JSON.stringify --------------------------- *)

\* The text of one value: a string between double quotes, a number as its
\* decimal text.
ValueText(val) ==
  IF val.t = "string" THEN <<"\"">> \o val.v \o <<"\"">> ELSE val.v

MemberText(p) == <<"\"", p.k, "\"", ":">> \o ValueText(p.v)

RECURSIVE Members(_)
Members(obj) ==
  IF obj = <<>> THEN <<>>
  ELSE IF Len(obj) = 1 THEN MemberText(obj[1])
  ELSE MemberText(obj[1]) \o <<",">> \o Members(Tail(obj))

\* JSON.stringify(obj): the members in insertion order; a property whose
\* value is undefined is left out.
JSONstringify(obj) ==
  <<"{">> \o Members(SelectSeq(obj, LAMBDA p : p.v.t # "undefined")) \o <<"}">>

(* ----------------------- signature primitive -------------------------- *)

\* createSign(ALGORITHM).update(data).sign(key): the signature bytes.
Sign(privateKey, data) == <<"sig", privateKey.pair>> \o data

\* A verification that accepts a signature made with any key.
CryptoVerifyAnyKey(publicKey, data, bytes) ==
  \E pair \in KeyPairs : bytes = <<"sig", pair>> \o data

\* A verification that never looks at the text that was signed.
CryptoVerifyAnyData(publicKey, data, bytes) ==
  /\ Len(bytes) >= 2
  /\ bytes[1] = "sig" /\ bytes[2] = publicKey.pair

\* createVerify(ALGORITHM).update(data).verify(key, bytes).
CryptoVerify(publicKey, data, bytes) ==
  bytes = <<"sig", publicKey.pair>> \o data

\* sign(key, "base64"): the text that carries the bytes in base64.
Base64Encode(bytes) == <<"base64">> \o bytes

\* A decoding that takes the characters of the text for the bytes.
Base64DecodeRaw(chars) == chars

\* Buffer.from(text, "base64"): the bytes the text carries; a text that is
\* no base64 of anything decodes to no bytes.
Base64Decode(chars) ==
  IF chars # <<>> /\ Head(chars) = "base64" THEN Tail(chars) ELSE <<>>

(* --------------------------- createTransaction ------------------------ *)

\* The object literal of createTransaction, created_at read from the clock.
Value(now) ==
  <<Prop("currency", Str(<<"U", "S", "D">>)),
    Prop("amount", Num(<<"1", "0", ".", "2">>)),
    Prop("remark", Str(<<"Payment for service">>)),
    Prop("created_at", Str(toISOString(now)))>>

\* What createTransaction(privateKey) computes at clock reading now: the text
\* given to signer.update, and the object returned, signature attached last.
Created(privateKey, now) ==
  LET value == Value(now)
      data == JSONstringify(value)
      signature == Base64Encode(Sign(privateKey, data))
  IN [transaction |-> Append(value, Prop("signature", Str(signature))),
      data |-> data,
      privateKey |-> privateKey,
      at |-> now]

createTransaction(privateKey) ==
  /\ Cardinality(issued \cup {Created(privateKey, clock)}) <= MaxIssued
  /\ issued' = issued \cup {Created(privateKey, clock)}
  /\ UNCHANGED <<clock, log>>

(* --------------------------- verifyTransaction ------------------------ *)

\* A current date taken from the caller's third argument when there is one.
CurrentDateFromArgs(args) ==
  IF args # <<>> THEN TimeValue(args[1]) ELSE TimeValue(clock)

\* new Date() of verifyTransaction: the system clock. The function declares
\* the parameters (transaction, publicKey); further arguments a caller
\* passes are never read.
CurrentDate(args) == TimeValue(clock)

\* How a call ended: the value of a return statement, or the TypeError
\* Buffer.from throws for an argument that is no string.
Returned(line, val) == [site |-> line, threw |-> FALSE, value |-> val]

Threw(line) == [site |-> line, threw |-> TRUE, value |-> FALSE]

\* A body that checks the signature before the age.
verifySignatureFirst(transaction, publicKey, currentDate) ==
  LET signature == Get(transaction, "signature")
      value == Rest(transaction)
      data == JSONstringify(value)
      created_at == NewDate(Get(value, "created_at"))
  IN IF signature.t # "string"
       THEN Threw("throw@38")
     ELSE IF ~CryptoVerify(publicKey, data, Base64Decode(signature.v))
       THEN Returned("return@36", FALSE)
     ELSE IF ExceedsWindow(DateMinus(currentDate, created_at))
       THEN Returned("return@33", FALSE)
     ELSE Returned("return@36", TRUE)

\* The body of verifyTransaction past the clock read: the age check, then
\* the decoding of the signature, then the signature check.
verify(transaction, publicKey, currentDate) ==
  LET signature == Get(transaction, "signature")
      value == Rest(transaction)
      data == JSONstringify(value)
      created_at == NewDate(Get(value, "created_at"))
  IN IF ExceedsWindow(DateMinus(currentDate, created_at))
       THEN Returned("return@33", FALSE)
     ELSE IF signature.t # "string"
       THEN Threw("throw@38")
     ELSE Returned("return@36",
                   CryptoVerify(publicKey, data, Base64Decode(signature.v)))

\* The text verifyTransaction gives to verifier.update.
VerifierData(transaction) == JSONstringify(Rest(transaction))

\* The outcome in the vocabulary of the verification result: the boolean
\* the code returns, told apart by the statement that returned it.
Reason(outcome) ==
  IF outcome.threw THEN "exception"
  ELSE IF outcome.value THEN "valid"
  ELSE IF outcome.site = "return@33" THEN "expired"
  ELSE "signature_invalid"

(* ----------------------- objects handed to verify --------------------- *)

SetProp(obj, key, val) ==
  [i \in 1..Len(obj) |-> IF obj[i].k = key THEN Prop(key, val) ELSE obj[i]]

\* Other values a field of a received object may carry.
OtherValues(key) ==
  IF key = "currency" THEN {Str(<<"K", "H", "R">>)}
  ELSE IF key = "amount" THEN {Num(<<"1", "0", "0", "0", ".", "2">>)}
  ELSE IF key = "remark" THEN {Str(<<>>)}
  ELSE IF key = "created_at"
    THEN {Str(toISOString(c)) : c \in Instants} \cup {Str(<<"yesterday">>)}
  ELSE {Str(<<"A", "A", "A", "A">>)}
         \cup {Get(i.transaction, "signature") : i \in issued}

SignedFields == {"currency", "amount", "remark", "created_at"}

\* The same properties inserted in alphabetical order of their keys.
Reordered(obj) == <<obj[2], obj[4], obj[1], obj[3], obj[5]>>

\* One more property, inserted after the others.
WithExtra(obj) == Append(obj, Prop("note", Str(<<"x">>)))

\* The objects a caller may hold for an issued transaction s: s itself, s
\* with the value of one property replaced, s with its properties in
\* another order, s with one more property, s without its signature.
Received(s) ==
  {s, Reordered(s), WithExtra(s), Rest(s)}
    \cup UNION {{SetProp(s, key, val) : val \in OtherValues(key)} :
                 key \in SignedFields \cup {"signature"}}

\* Arguments a caller may pass after (transaction, publicKey): none, or a
\* time and a maximum age.
ExtraArgs == {<<>>, <<0, 2 * maximumWindowMs>>}

verifyTransaction(transaction, pair, args) ==
  /\ log' = <<[transaction |-> transaction,
               publicKey |-> PublicKey(pair),
               args |-> args,
               at |-> clock,
               data |-> VerifierData(transaction),
               outcome |-> verify(transaction, PublicKey(pair),
                                  CurrentDate(args))]>>
  /\ UNCHANGED <<clock, issued>>

(* ------------------------------ the clock ----------------------------- *)

Tick(c) ==
  /\ c > clock
  /\ clock' = c
  /\ UNCHANGED <<issued, log>>

(* --------------------------- specification ---------------------------- *)

Init ==
  /\ clock = 0
  /\ issued = {}
  /\ log = <<>>

Next ==
  \/ \E c \in Instants : Tick(c)
  \/ \E privateKey \in SignerKeys : createTransaction(privateKey)
  \/ \E i \in issued, pair \in KeyPairs, args \in ExtraArgs :
       \E t \in Received(i.transaction) : verifyTransaction(t, pair, args)

Spec == Init /\ [][Next]_vars

(* ------------------------------ claims -------------------------------- *)

Called == log # <<>>

Call == log[1]

\* The outcome of the last call, in the words of the verification result.
Result == Reason(Call.outcome)

\* Milliseconds from the creation of the issued transaction i to the call.
Elapsed(i) == Call.at - i.at

\* The call was given the issued transaction i as it was returned.
Untouched(i) == Called /\ Call.transaction = i.transaction

\* The call was given the public key of the pair that signed i.
MatchingKey(i) == Call.publicKey.pair = i.privateKey.pair

\* The call was given i with the value of exactly one of the four signed
\* fields changed and nothing else.
OneFieldChanged(i) ==
  /\ Called
  /\ Len(Call.transaction) = Len(i.transaction)
  /\ \A j \in 1..Len(i.transaction) : Call.transaction[j].k = i.transaction[j].k
  /\ Cardinality({j \in 1..Len(i.transaction) :
                    Call.transaction[j].v # i.transaction[j].v}) = 1
  /\ \E j \in 1..Len(i.transaction) :
       /\ Call.transaction[j].v # i.transaction[j].v
       /\ i.transaction[j].k \in SignedFields

\* The age the call computes from the created_at it was given reaches the
\* window (an invalid date has no age, and never does).
TooOld ==
  LET created_at == NewDate(Get(Call.transaction, "created_at"))
  IN ~created_at.nan /\ Call.at - created_at.ms >= 5 * 60 * 1000

\* C1: a transaction returned by createTransaction, given unchanged to
\* verifyTransaction with the public key of the signing pair at a clock
\* reading less than five minutes after its creation, verifies (true).
RoundTripValid ==
  \A i \in issued :
    (Untouched(i) /\ MatchingKey(i) /\ 0 <= Elapsed(i) /\ Elapsed(i) < 300000)
      => Result = "valid"

RoundTripValidWitness ==
  \E i \in issued :
    /\ Untouched(i) /\ MatchingKey(i)
    /\ Elapsed(i) > 0 /\ Elapsed(i) < 300000
    /\ Result = "valid"

\* C2 as stated: changing the value of one of amount, currency, remark,
\* created_at of a signed transaction makes verification with the matching
\* key yield signature_invalid.
TamperYieldsSignatureInvalid ==
  \A i \in issued :
    (OneFieldChanged(i) /\ MatchingKey(i)) => Result = "signature_invalid"

\* C2 amended: such a change never verifies; the call returns false, from
\* the age check (expired) when the created_at it was given is five minutes
\* old or more, and from the signature check (signature_invalid) otherwise.
TamperNeverValid ==
  \A i \in issued :
    (OneFieldChanged(i) /\ MatchingKey(i))
      => Result = (IF TooOld THEN "expired" ELSE "signature_invalid")

TamperNeverValidWitness ==
  \E i \in issued :
    /\ OneFieldChanged(i) /\ MatchingKey(i)
    /\ Get(Call.transaction, "amount") # Get(i.transaction, "amount")
    /\ Result = "signature_invalid"

\* C3 as stated: verifying a signed transaction with the public key of
\* another pair yields signature_invalid at every clock reading.
WrongKeyYieldsSignatureInvalid ==
  \A i \in issued :
    (Untouched(i) /\ ~MatchingKey(i)) => Result = "signature_invalid"

\* C3 amended: verifying a signed transaction with the public key of
\* another pair never verifies; it yields signature_invalid while the
\* transaction is less than five minutes old and expired from then on.
WrongKeyNeverValid ==
  \A i \in issued :
    (Untouched(i) /\ ~MatchingKey(i))
      => Result = (IF Elapsed(i) >= 300000 THEN "expired"
                   ELSE "signature_invalid")

WrongKeyNeverValidWitness ==
  \E i \in issued :
    /\ Untouched(i) /\ ~MatchingKey(i)
    /\ Elapsed(i) < 300000
    /\ Result = "signature_invalid"

SameFieldValues(i) ==
  /\ Called
  /\ \A key \in SignedFields \cup {"signature"} :
       Get(Call.transaction, key) = Get(i.transaction, key)
  /\ Len(Call.transaction) = Len(i.transaction)

\* C5: two transactions with equal values for currency, amount, remark and
\* created_at serialize to the same text on the signer and on the verifier,
\* whatever the insertion order of the fields in the object verified.
CanonicalIgnoresInsertionOrder ==
  \A i \in issued : SameFieldValues(i) => Call.data = i.data

\* The text names the property key: "key": at some position.
ContainsKey(data, key) ==
  \E n \in 1..(Len(data) - 3) :
    /\ data[n] = "\"" /\ data[n + 1] = key
    /\ data[n + 2] = "\"" /\ data[n + 3] = ":"

\* The object given to the call is i with another signature value.
OnlySignatureDiffers(i) ==
  /\ Called
  /\ Len(Call.transaction) = 5
  /\ \A j \in 1..4 : Call.transaction[j] = i.transaction[j]
  /\ Call.transaction[5].k = "signature"

\* C6: the text given to the signature primitive never contains the
\* signature field, neither in createTransaction nor in verifyTransaction,
\* and the value of signature does not influence the text it is checked
\* against.
SignatureExcluded ==
  /\ \A i \in issued : ~ContainsKey(i.data, "signature")
  /\ Called => ~ContainsKey(Call.data, "signature")
  /\ \A i \in issued : OnlySignatureDiffers(i) => Call.data = i.data

SignatureExcludedWitness ==
  \E i \in issued :
    /\ OnlySignatureDiffers(i)
    /\ Call.transaction[5].v # i.transaction[5].v
    /\ ContainsKey(Call.data, "created_at")

\* The object given to the call lacks the signature field, or its
\* created_at is no valid point in time.
Malformed ==
  /\ Called
  /\ \/ ~HasKey(Call.transaction, "signature")
     \/ NewDate(Get(Call.transaction, "created_at")).nan

\* C7: a call on an object that lacks signature or has a malformed field
\* gives its caller a value, never an exception, and never reports valid.
MalformedIsAnOutcome ==
  Malformed => (~Call.outcome.threw /\ Result # "valid")

SignatureVerifies ==
  LET signature == Get(Call.transaction, "signature")
  IN /\ signature.t = "string"
     /\ signature.v = <<"base64", "sig", Call.publicKey.pair>> \o Call.data

\* C9 as stated: the signature is checked before the age, so a transaction
\* that is both forged and expired yields signature_invalid, never expired.
SignatureCheckedFirst ==
  (Called /\ ~SignatureVerifies /\ TooOld) => Result = "signature_invalid"

\* C9 amended: the age is checked before the signature and both checks are
\* on the path to valid, so a transaction that is both forged and expired
\* yields expired, never signature_invalid.
AgeCheckedFirst ==
  /\ (Called /\ ~SignatureVerifies /\ TooOld) => Result = "expired"
  /\ (Called /\ Result = "valid") => (SignatureVerifies /\ ~TooOld)

AgeCheckedFirstWitness ==
  /\ Called /\ ~SignatureVerifies /\ TooOld
  /\ HasKey(Call.transaction, "signature")
  /\ Result = "expired"

\* The object given to the call is i with properties added whose keys are
\* neither the four signed fields nor signature.
ExtraFieldAdded(i) ==
  /\ Called
  /\ Len(Call.transaction) > Len(i.transaction)
  /\ \A key \in SignedFields \cup {"signature"} :
       Get(Call.transaction, key) = Get(i.transaction, key)
  /\ SubSeq(Call.transaction, 1, Len(i.transaction)) = i.transaction

\* C10: adding to a signed transaction a field other than the four signed
\* fields and signature changes neither the text the verifier checks nor the
\* outcome of the verification.
ExtraFieldIgnored ==
  \A i \in issued :
    ExtraFieldAdded(i)
      => /\ Call.data = i.data
         /\ MatchingKey(i) =>
              Result = (IF Elapsed(i) >= 300000 THEN "expired" ELSE "valid")

====
